---- MODULE Spec2Model ----
(***************************************************************************)
(* A model of the pension demo API (mock-pension-api) and of the parts of  *)
(* its portal client that carry state:                                     *)
(*   - the cursor pager of paginatedAccounts / paginatedTransactions,      *)
(*   - the DataLoader instances built by loaders.ts,                       *)
(*   - the mutations of schema.ts with their PubSub publications,          *)
(*   - the cache policy of paginatedAccounts and the performance monitor   *)
(*     of the portal.                                                      *)
(* Eight specifications share the module: PagerSpec (the pager applied to    *)
(* drawn collections), LoaderSpec and LoaderFailSpec (one loader instance  *)
(* over the store loaders.ts imports, without and with a failing batch     *)
(* function), Spec (the server: store, mutations, subscriptions, request   *)
(* contexts), MutationSpec (the mutations alone), BusSpec (the PubSub bus   *)
(* with the mutation that publishes to it), CacheSpec (query results       *)
(* written to the portal's cache) and MonitorSpec (the portal's            *)
(* performance monitor).                                                   *)
(***************************************************************************)
EXTENDS Integers, Sequences, FiniteSets, TLC

VARIABLES
    pgColl,     \* the ordered collection handed to the pager
    pgMode,     \* "idle" | "call" (one paginate call made) | "trav" (forward traversal)
    pgArgs,     \* the arguments of the last paginate call
    pgPage,     \* the connection the last paginate call returned
    pgAcc,      \* traversal: the nodes of all pages fetched so far, in fetch order
    pgPages     \* traversal: number of pages fetched so far

pagerVars == <<pgColl, pgMode, pgArgs, pgPage, pgAcc, pgPages>>

VARIABLES
    loaderDb,   \* the store loaders.ts imports from './db'
    ldKind,     \* which factory of loaders.ts built the loader instance
    loader,     \* the DataLoader instance: its cache map and its current batch
    ldPromises, \* the promises the instance created, by index
    ldCalls,    \* the load calls made so far, in call order: what each caller holds
    ldInflight, \* the dispatched batch whose batch function's promise is not yet settled
    ldFetchLog, \* every invocation of the batch function: window, keys, values
    ldWin,      \* number of the current flush window
    ldDone      \* the flush windows whose dispatch has completed

loaderVars == <<loaderDb, ldKind, loader, ldPromises, ldCalls, ldInflight, ldFetchLog, ldWin, ldDone>>

VARIABLES
    db,          \* db.accounts of schema.ts: the store the resolvers read and mutate
    calls,       \* the mutation calls made so far, each with its position and outcome
    pubLog,      \* every pubsub.publish made so far, in publish order
    subs,        \* the subscriptions opened so far: topic, queue, what was delivered
    lastRequest  \* the last query request served: its context and what it returned

serverVars == <<db, calls, pubLog, subs, lastRequest>>

VARIABLES
    apCache,     \* portal: the InMemoryCache entries of Query.paginatedAccounts, by arguments
    apWrites     \* portal: number of query results written to the cache so far

cacheVars == <<apCache, apWrites>>

VARIABLES
    pmSource,    \* portal: the metrics the operations of the session produce, repeating
    pmMetrics,   \* portal: PerformanceMonitor.metrics
    pmAdded,     \* portal: every metric handed to addMetric so far, in call order
    pmLast       \* portal: the last getter called on the monitor and what it returned

monitorVars == <<pmSource, pmMetrics, pmAdded, pmLast>>

clientVars == <<cacheVars, monitorVars>>

vars == <<pagerVars, loaderVars, serverVars, clientVars>>

----------------------------------------------------------------------------
(* Bounds of the model *)

MaxIds == 3      \* single-character ids "1".."MaxIds" in the id pool
MaxColl == 3     \* longest collection drawn for the pager
MaxFirst == 3    \* largest explicit first / last argument
MaxLoads == 4    \* load calls made on one loader instance
MaxMany == 2     \* longest key list handed to loadMany
MaxCalls == 2    \* mutation calls made on the server
MaxSubs == 1     \* subscriptions opened on the server
MaxListeners == 2 \* subscriptions opened on the bus taken alone

----------------------------------------------------------------------------
(* Optional values: an absent JS value (undefined) is the empty set, a     *)
(* present one a singleton.                                                *)

None == {}
Some(x) == {x}
IsSome(m) == m # {}
Val(m) == CHOOSE x \in m : TRUE

Min(a, b) == IF a <= b THEN a ELSE b

(* Ids are strings, kept as their sequence of character codes. *)
DigitId(i) == <<48 + i>>                    \* "1", "2", ...
TXN001 == <<84, 88, 78, 48, 48, 49>>        \* 'TXN001'

IdPool == { DigitId(i) : i \in 1..MaxIds } \cup { TXN001 }

----------------------------------------------------------------------------
(* Buffer.from(id).toString('base64'): the cursor of an element.  The      *)
(* result is the sequence of base64 digits 0..63, the padding '=' being 64.*)

PadChar == 64

RECURSIVE Base64(_)
Base64(bytes) ==
    IF Len(bytes) = 0 THEN <<>>
    ELSE IF Len(bytes) = 1 THEN
        <<bytes[1] \div 4, (bytes[1] % 4) * 16, PadChar, PadChar>>
    ELSE IF Len(bytes) = 2 THEN
        <<bytes[1] \div 4,
          (bytes[1] % 4) * 16 + bytes[2] \div 16,
          (bytes[2] % 16) * 4,
          PadChar>>
    ELSE
        <<bytes[1] \div 4,
          (bytes[1] % 4) * 16 + bytes[2] \div 16,
          (bytes[2] % 16) * 4 + bytes[3] \div 64,
          bytes[3] % 64>>
        \o Base64(SubSeq(bytes, 4, Len(bytes)))

(* Array.prototype.slice(start, end) on a 1-based sequence; start and end  *)
(* are JS (0-based) indices, negative ones counting from the end.          *)
JsSlice(s, start, end) ==
    LET n == Len(s)
        rel(k) == IF k < 0 THEN (IF n + k < 0 THEN 0 ELSE n + k)
                  ELSE (IF k > n THEN n ELSE k)
    IN  IF rel(start) >= rel(end) THEN <<>>
        ELSE SubSeq(s, rel(start) + 1, rel(end))

JsSliceFrom(s, start) == JsSlice(s, start, Len(s))

(* Array.prototype.findIndex(el => base64(el.id) === cursor): 0-based      *)
(* index of the first match, -1 without one.                               *)
FindIndex(coll, cursor) ==
    LET hits == { i \in 1..Len(coll) : Base64(coll[i]) = cursor }
    IN  IF hits = {} THEN -1
        ELSE (CHOOSE i \in hits : \A j \in hits : i <= j) - 1

(* A cursor string is truthy unless empty; a number unless 0. *)
TruthyStr(m) == IsSome(m) /\ Val(m) # <<>>
TruthyNum(m) == IsSome(m) /\ Val(m) # 0

DefaultFirst == 10

(* const { first = 10, ... } = args: the default replaces an absent first *)
FirstArg(args) == IF IsSome(args.first) THEN args.first ELSE Some(DefaultFirst)

(* if (after) { index = findIndex(...); accounts = accounts.slice(index + 1) } *)
AfterFilterDropBefore(coll, after) ==
    IF TruthyStr(after) THEN JsSliceFrom(coll, FindIndex(coll, Val(after)))
    ELSE coll

(* an after-filter that leaves nothing when the cursor matches no element *)
AfterFilterUnmatchedEmpty(coll, after) ==
    IF TruthyStr(after)
    THEN IF FindIndex(coll, Val(after)) = -1 THEN <<>>
         ELSE JsSliceFrom(coll, FindIndex(coll, Val(after)) + 1)
    ELSE coll

AfterFilter(coll, after) ==
    IF TruthyStr(after) THEN JsSliceFrom(coll, FindIndex(coll, Val(after)) + 1)
    ELSE coll

(* if (before) { index = findIndex(...); accounts = accounts.slice(0, index) } *)
BeforeFilter(coll, before) ==
    IF TruthyStr(before) THEN JsSlice(coll, 0, FindIndex(coll, Val(before)))
    ELSE coll

(* if (first) { hasNextPage = length > first; accounts = accounts.slice(0, first) } *)
FirstCut(coll, first) ==
    IF TruthyNum(first) THEN JsSlice(coll, 0, Val(first)) ELSE coll

(* if (last) { hasPreviousPage = true; accounts = accounts.slice(-last) } *)
LastCut(coll, last) ==
    IF TruthyNum(last) THEN JsSliceFrom(coll, 0 - Val(last)) ELSE coll

(* let hasNextPage = false; if (first) { hasNextPage = accounts.length > first } *)
HasNextPage(remaining, first) == TruthyNum(first) /\ Len(remaining) > Val(first)

(* let hasPreviousPage = false; set to true in the after block and in the  *)
(* last block                                                              *)
HasPreviousPageAlsoBefore(args) ==
    TruthyStr(args.after) \/ TruthyStr(args.before) \/ TruthyNum(args.last)

HasPreviousPage(args) == TruthyStr(args.after) \/ TruthyNum(args.last)

(* totalCount: db.accounts.length (account.withdrawalHistory.length), read *)
(* from the source array, not from the sliced copy                         *)
TotalCountOfPage(coll, sliced) == Len(sliced)

TotalCount(coll, sliced) == Len(coll)

(* What a call leaves in the source array.  The resolver works on a spread *)
(* copy ([...db.accounts]) and only calls findIndex, slice and map, which  *)
(* leave their receiver alone: the source is what it was.                  *)
SourceAfterSplice(coll, args) == FirstCut(coll, FirstArg(args))

SourceAfter(coll, args) == coll

(* The body shared by the resolvers paginatedAccounts (over db.accounts)   *)
(* and paginatedTransactions (over account.withdrawalHistory); coll is the *)
(* sequence of the elements' ids.                                          *)
Paginate(coll, args) ==
    LET first == FirstArg(args)
        a1 == AfterFilter(coll, args.after)
        a2 == BeforeFilter(a1, args.before)
        a3 == FirstCut(a2, first)
        a4 == LastCut(a3, args.last)
        edges == [ i \in 1..Len(a4) |-> [cursor |-> Base64(a4[i]), node |-> a4[i]] ]
    IN  [ edges |-> edges,
          hasNextPage |-> HasNextPage(a2, first),
          hasPreviousPage |-> HasPreviousPage(args),
          startCursor |-> IF Len(edges) = 0 THEN None ELSE Some(edges[1].cursor),
          endCursor |-> IF Len(edges) = 0 THEN None ELSE Some(edges[Len(edges)].cursor),
          totalCount |-> TotalCount(coll, a4) ]

Nodes(page) == [ i \in 1..Len(page.edges) |-> page.edges[i].node ]

----------------------------------------------------------------------------
Range(s) == { s[i] : i \in 1..Len(s) }

(* The sequences of distinct elements of S of length at most n *)
RECURSIVE InjSeqs(_, _)
InjSeqs(S, n) ==
    IF n = 0 THEN { <<>> }
    ELSE LET shorter == InjSeqs(S, n - 1)
         IN  shorter \cup
             UNION { { Append(s, x) : x \in S \ Range(s) } :
                     s \in { t \in shorter : Len(t) = n - 1 } }

Cursors == { Base64(id) : id \in IdPool } \cup { <<>> }
MaybeCursor == { None } \cup { Some(c) : c \in Cursors }
MaybeCount == { None } \cup { Some(n) : n \in 0..MaxFirst }

NoArgs == [first |-> None, after |-> None, last |-> None, before |-> None]
NoPage == Paginate(<<>>, NoArgs)

(* One call paginate(coll, {first, after, last, before}) *)
PaginateCall(first, after, last, before) ==
    LET args == [first |-> first, after |-> after, last |-> last, before |-> before]
    IN  /\ pgMode = "idle"
        /\ pgMode' = "call"
        /\ pgArgs' = args
        /\ pgPage' = Paginate(pgColl, args)
        /\ pgColl' = SourceAfter(pgColl, args)
        /\ UNCHANGED <<pgAcc, pgPages>>

(* useQuery(GET_PAGINATED_ACCOUNTS, {first: f, after: null}): the first page *)
FirstPage(f) ==
    LET args == [NoArgs EXCEPT !.first = Some(f)]
        page == Paginate(pgColl, args)
    IN  /\ pgMode = "idle"
        /\ pgMode' = "trav"
        /\ pgArgs' = args
        /\ pgPage' = page
        /\ pgAcc' = Nodes(page)
        /\ pgPages' = 1
        /\ pgColl' = SourceAfter(pgColl, args)

(* handleNextPage: if hasNextPage, fetch {first: f, after: endCursor} *)
HandleNextPage ==
    LET args == [pgArgs EXCEPT !.after = pgPage.endCursor]
        page == Paginate(pgColl, args)
    IN  /\ pgMode = "trav"
        /\ pgPage.hasNextPage
        /\ pgArgs' = args
        /\ pgPage' = page
        /\ pgAcc' = pgAcc \o Nodes(page)
        /\ pgPages' = pgPages + 1
        /\ pgColl' = SourceAfter(pgColl, args)
        /\ UNCHANGED pgMode

----------------------------------------------------------------------------
(* The store: db.accounts is an array of account objects.  Dates, names    *)
(* and contact numbers are left out: no resolver reads them.  The field    *)
(* call of a transaction stands for the identity of the object: the number *)
(* of the mutation call that created it, 0 for the sample data.            *)

TxnId(suffix) == <<84, 88, 78>> \o suffix     \* `TXN${suffix}`
BenId(suffix) == <<66, 69, 78>> \o suffix     \* `BEN${suffix}`

InitialAccounts ==
    << [ id |-> DigitId(1), balance |-> 50000, status |-> "ACTIVE",
         eligibleForWithdrawal |-> TRUE,
         withdrawalHistory |->
             << [id |-> TXN001, amount |-> 5000, status |-> "COMPLETED", call |-> 0] >>,
         beneficiaries |-> << [id |-> BenId(<<48, 48, 49>>), percentage |-> 60],
                              [id |-> BenId(<<48, 48, 50>>), percentage |-> 40] >> ],
       [ id |-> DigitId(2), balance |-> 75000, status |-> "ACTIVE",
         eligibleForWithdrawal |-> FALSE,
         withdrawalHistory |-> << >>,
         beneficiaries |-> << [id |-> BenId(<<48, 48, 51>>), percentage |-> 100] >> ] >>

(* The store './db' exports to loaders.ts.  schema.ts keeps its own store  *)
(* in a module-local const and exports none, so this is another object;    *)
(* the file is not among the sources and is taken to hold the same sample  *)
(* accounts.                                                               *)
LoaderStoreAccounts == InitialAccounts

(* db.accounts.find(acc => acc.id === id): index of the first account with *)
(* that id, 0 for undefined                                                *)
FindAccount(accounts, id) ==
    LET hits == { i \in 1..Len(accounts) : accounts[i].id = id }
    IN  IF hits = {} THEN 0 ELSE CHOOSE i \in hits : \A j \in hits : i <= j

----------------------------------------------------------------------------
(* loaders.ts: the three DataLoader factories.  What a loader hands out is *)
(* a JS reference: the account object itself, its beneficiaries or         *)
(* withdrawalHistory array, undefined, or a new empty array.               *)

Undefined == [ref |-> "undefined", idx |-> 0]
NewEmptyList == [ref |-> "emptyList", idx |-> 0]
Ref(field, i) == [ref |-> field, idx |-> i]

LoaderKinds == {"account", "beneficiary", "transaction"}

(* A batch function without the `|| []` fallback: an unknown id gives      *)
(* undefined whatever the loader                                           *)
BatchResultNoFallback(kind, accounts, id) ==
    LET a == FindAccount(accounts, id)
    IN  CASE kind = "account" -> IF a = 0 THEN Undefined ELSE Ref("account", a)
          [] kind = "beneficiary" ->
                 IF a = 0 THEN Undefined ELSE Ref("beneficiaries", a)
          [] kind = "transaction" ->
                 IF a = 0 THEN Undefined ELSE Ref("withdrawalHistory", a)

(* The result of a batch function for one id *)
BatchResult(kind, accounts, id) ==
    LET a == FindAccount(accounts, id)
    IN  CASE kind = "account" -> IF a = 0 THEN Undefined ELSE Ref("account", a)
          [] kind = "beneficiary" ->
                 IF a = 0 THEN NewEmptyList ELSE Ref("beneficiaries", a)
          [] kind = "transaction" ->
                 IF a = 0 THEN NewEmptyList ELSE Ref("withdrawalHistory", a)

(* A batch function that answers in store order, leaving out unknown ids *)
BatchLoadFnStoreOrder(kind, accounts, accountIds) ==
    LET found == SelectSeq([ i \in 1..Len(accounts) |-> i ],
                           LAMBDA i : accounts[i].id \in Range(accountIds))
    IN  [ j \in 1..Len(found) |-> BatchResult(kind, accounts, accounts[found[j]].id) ]

(* async (accountIds) => accountIds.map(id => db.accounts.find(...))...    *)
BatchLoadFn(kind, accounts, accountIds) ==
    [ i \in 1..Len(accountIds) |-> BatchResult(kind, accounts, accountIds[i]) ]

(* new DataLoader(batchLoadFn) is built without options: caching is on *)
CacheDisabled == FALSE
CacheEnabled == TRUE

LoaderKeys == { DigitId(i) : i \in 1..MaxIds }

NewLoader == [ cacheMap |-> [ k \in LoaderKeys |-> 0 ],
               keys |-> << >>, callbacks |-> << >>, scheduled |-> FALSE ]

(* What the caller of the h-th load holds is settled once the dispatch of  *)
(* its window has completed and the promise behind it is settled.          *)
HandleSettled(promises, done, h) ==
    h.window \in done /\ promises[h.promise].state # "pending"

HandleResolved(promises, done, h) ==
    h.window \in done /\ promises[h.promise].state = "fulfilled"

(* DataLoader.load(key) on the loader state S = [cacheMap, keys,           *)
(* callbacks, promises, calls] in flush window w: a cached promise is      *)
(* handed out again; otherwise the key joins the current batch with a new  *)
(* promise, which is cached at once.                                       *)
LoadOn(S, k, w) ==
    LET cached == IF CacheEnabled THEN S.cacheMap[k] ELSE 0
        prior == \E j \in 1..Len(S.calls) :
                     /\ S.calls[j].key = k
                     /\ HandleResolved(S.promises, ldDone, S.calls[j])
        failed == \E j \in 1..Len(S.calls) :
                      /\ S.calls[j].key = k
                      /\ S.calls[j].window \in ldDone
                      /\ S.promises[S.calls[j].promise].state = "rejected"
        p == Len(S.promises) + 1
    IN  IF cached # 0
        THEN [ S EXCEPT !.calls = Append(@, [key |-> k, promise |-> cached, window |-> w,
                                             priorResolved |-> prior,
                                             priorRejected |-> failed]) ]
        ELSE [ S EXCEPT
                 !.keys = Append(@, k),
                 !.callbacks = Append(@, p),
                 !.promises = Append(@, [key |-> k, window |-> w,
                                         state |-> "pending", value |-> Undefined]),
                 !.cacheMap = IF CacheEnabled THEN [ @ EXCEPT ![k] = p ] ELSE @,
                 !.calls = Append(@, [key |-> k, promise |-> p, window |-> w,
                                      priorResolved |-> prior,
                                      priorRejected |-> failed]) ]

(* DataLoader.loadMany(keys): load(key) for each key, in order *)
RECURSIVE LoadManyOn(_, _, _)
LoadManyOn(S, ks, w) ==
    IF ks = << >> THEN S
    ELSE LoadManyOn(LoadOn(S, Head(ks), w), Tail(ks), w)

LoaderState ==
    [ cacheMap |-> loader.cacheMap, keys |-> loader.keys, callbacks |-> loader.callbacks,
      promises |-> ldPromises, calls |-> ldCalls ]

(* The first load of a window creates the batch and schedules its dispatch *)
SetLoaderState(S) ==
    /\ loader' = [ cacheMap |-> S.cacheMap, keys |-> S.keys, callbacks |-> S.callbacks,
                   scheduled |-> loader.scheduled \/ Len(S.calls) > Len(ldCalls) ]
    /\ ldPromises' = S.promises
    /\ ldCalls' = S.calls

(* loaders.<x>Loader.load(id), as the resolvers pensionAccount,            *)
(* accountTransactions, accountBeneficiaries and PensionAccount.* call it  *)
Load(k) ==
    /\ Len(ldCalls) < MaxLoads
    /\ SetLoaderState(LoadOn(LoaderState, k, ldWin))
    /\ UNCHANGED <<loaderDb, ldKind, ldInflight, ldFetchLog, ldWin, ldDone>>

(* loaders.accountLoader.loadMany(ids), as the resolver pensionAccounts calls it *)
LoadMany(ks) ==
    /\ Len(ldCalls) + Len(ks) <= MaxLoads
    /\ SetLoaderState(LoadManyOn(LoaderState, ks, ldWin))
    /\ UNCHANGED <<loaderDb, ldKind, ldInflight, ldFetchLog, ldWin, ldDone>>

(* dispatchBatch: the scheduled flush.  A batch without keys only releases *)
(* its cache hits; otherwise the batch function is called once with the    *)
(* keys of the batch.                                                      *)
Dispatch ==
    /\ loader.scheduled
    /\ ldInflight = None
    /\ IF loader.keys = << >>
       THEN /\ ldDone' = ldDone \cup {ldWin}
            /\ UNCHANGED <<ldInflight, ldFetchLog>>
       ELSE LET values == BatchLoadFn(ldKind, loaderDb, loader.keys)
            IN  /\ ldFetchLog' = Append(ldFetchLog,
                       [window |-> ldWin, keys |-> loader.keys, values |-> values,
                        rejected |-> FALSE])
                /\ ldInflight' = Some([window |-> ldWin, keys |-> loader.keys,
                                       callbacks |-> loader.callbacks, values |-> values,
                                       rejected |-> FALSE])
                /\ UNCHANGED ldDone
    /\ loader' = [ loader EXCEPT !.keys = << >>, !.callbacks = << >>, !.scheduled = FALSE ]
    /\ ldWin' = ldWin + 1
    /\ UNCHANGED <<loaderDb, ldKind, ldPromises, ldCalls>>

(* dispatchBatch when the batch function throws: the function is async, so *)
(* its promise is rejected.  The functions of loaders.ts throw when        *)
(* db.accounts of './db' cannot be read.                                   *)
DispatchRejected ==
    /\ loader.scheduled
    /\ ldInflight = None
    /\ loader.keys # << >>
    /\ ldFetchLog' = Append(ldFetchLog,
           [window |-> ldWin, keys |-> loader.keys, values |-> << >>, rejected |-> TRUE])
    /\ ldInflight' = Some([window |-> ldWin, keys |-> loader.keys,
                           callbacks |-> loader.callbacks, values |-> << >>,
                           rejected |-> TRUE])
    /\ loader' = [ loader EXCEPT !.keys = << >>, !.callbacks = << >>, !.scheduled = FALSE ]
    /\ ldWin' = ldWin + 1
    /\ UNCHANGED <<loaderDb, ldKind, ldPromises, ldCalls, ldDone>>

(* The error every callback of a failed batch is rejected with *)
BatchError == [ref |-> "error", idx |-> 0]

(* a loader that rejects the callbacks of a failed batch and keeps their   *)
(* promises in the cache                                                   *)
SettleKeepsFailedKeys ==
    /\ ldInflight # None
    /\ LET b == Val(ldInflight)
           ok == ~b.rejected /\ Len(b.values) = Len(b.keys)
           pos(p) == CHOOSE i \in 1..Len(b.callbacks) : b.callbacks[i] = p
       IN  /\ ldPromises' =
                 [ p \in 1..Len(ldPromises) |->
                     IF p \in Range(b.callbacks)
                     THEN IF ok
                          THEN [ ldPromises[p] EXCEPT !.state = "fulfilled",
                                                      !.value = b.values[pos(p)] ]
                          ELSE [ ldPromises[p] EXCEPT !.state = "rejected",
                                                      !.value = BatchError ]
                     ELSE ldPromises[p] ]
           /\ loader' = loader
           /\ ldDone' = ldDone \cup {b.window}
    /\ ldInflight' = None
    /\ UNCHANGED <<loaderDb, ldKind, ldCalls, ldFetchLog, ldWin>>

(* batchPromise.then(values => ...).catch(...): a rejected batch function   *)
(* and a result array whose length is not that of the keys fail the whole  *)
(* batch (failedDispatch: each key is cleared from the cache and each      *)
(* callback rejected with the one error); otherwise callback i is resolved *)
(* with values[i].                                                         *)
Settle ==
    /\ ldInflight # None
    /\ LET b == Val(ldInflight)
           ok == ~b.rejected /\ Len(b.values) = Len(b.keys)
           pos(p) == CHOOSE i \in 1..Len(b.callbacks) : b.callbacks[i] = p
       IN  /\ ldPromises' =
                 [ p \in 1..Len(ldPromises) |->
                     IF p \in Range(b.callbacks)
                     THEN IF ok
                          THEN [ ldPromises[p] EXCEPT !.state = "fulfilled",
                                                      !.value = b.values[pos(p)] ]
                          ELSE [ ldPromises[p] EXCEPT !.state = "rejected",
                                                      !.value = BatchError ]
                     ELSE ldPromises[p] ]
           /\ loader' = IF ok THEN loader
                        ELSE [ loader EXCEPT !.cacheMap =
                                 [ k \in LoaderKeys |->
                                     IF k \in Range(b.keys) THEN 0 ELSE @[k] ] ]
           /\ ldDone' = ldDone \cup {b.window}
    /\ ldInflight' = None
    /\ UNCHANGED <<loaderDb, ldKind, ldCalls, ldFetchLog, ldWin>>

KeyLists == UNION { [1..n -> LoaderKeys] : n \in 0..MaxMany }

LoaderIdle ==
    /\ loaderDb = LoaderStoreAccounts
    /\ ldKind = "account"
    /\ loader = NewLoader
    /\ ldPromises = << >>
    /\ ldCalls = << >>
    /\ ldInflight = None
    /\ ldFetchLog = << >>
    /\ ldWin = 1
    /\ ldDone = {}

PagerIdle ==
    /\ pgColl = << >>
    /\ pgMode = "idle"
    /\ pgArgs = NoArgs
    /\ pgPage = NoPage
    /\ pgAcc = <<>>
    /\ pgPages = 0

----------------------------------------------------------------------------
(* schema.ts: the mutations, the PubSub topics and the subscriptions *)

WITHDRAWAL_STATUS_CHANGED == "WITHDRAWAL_STATUS_CHANGED"
ACCOUNT_BALANCE_CHANGED == "ACCOUNT_BALANCE_CHANGED"
Topics == {WITHDRAWAL_STATUS_CHANGED, ACCOUNT_BALANCE_CHANGED}

MaximumWithdrawalPercentage == 25

(* Inputs of the mutations: account '1' is eligible, '2' is not, '3' does  *)
(* not exist.                                                              *)
AccountIds == { DigitId(1), DigitId(2), DigitId(3) }
Amounts == { -1000, 10000, 12500, 20000, 60000 }
Statuses == { "ACTIVE", "FROZEN", "WITHDRAWN" }
Percentages == { -10, 50 }

(* Math.random().toString(36).substr(2, 6): any of the strings the         *)
(* generator can produce; 'a' and 'b' stand for all of them.               *)
RandomSuffixes == { <<97>>, <<98>> }

(* The messages of the resolvers, by what they say *)
MsgNotFound == "account not found"
MsgNotEligible == "account not eligible for withdrawal"
MsgInsufficient == "insufficient balance"
MsgOverMaximum == "amount exceeds the maximum percentage of the balance"
MsgSubmitted == "withdrawal request submitted"
MsgOverHundred == "beneficiary percentages would exceed 100"

(* The checks of requestWithdrawal without the two checks of the amount *)
WithdrawalRefusalEligibilityOnly(accounts, accountId, amount) ==
    LET a == FindAccount(accounts, accountId)
    IN  IF a = 0 THEN MsgNotFound
        ELSE IF ~accounts[a].eligibleForWithdrawal THEN MsgNotEligible
        ELSE ""

(* The checks of requestWithdrawal with the maximum-percentage check made *)
(* before the balance check                                                *)
WithdrawalRefusalMaximumFirst(accounts, accountId, amount) ==
    LET a == FindAccount(accounts, accountId)
    IN  IF a = 0 THEN MsgNotFound
        ELSE IF ~accounts[a].eligibleForWithdrawal THEN MsgNotEligible
        ELSE IF amount * 100 > accounts[a].balance * MaximumWithdrawalPercentage
             THEN MsgOverMaximum
        ELSE IF amount > accounts[a].balance THEN MsgInsufficient
        ELSE ""

(* The checks of requestWithdrawal in their order: the message of the      *)
(* first one that fails, "" when all pass.  maxAmount = balance *          *)
(* (percentage / 100); amount > maxAmount is compared without division.    *)
WithdrawalRefusal(accounts, accountId, amount) ==
    LET a == FindAccount(accounts, accountId)
    IN  IF a = 0 THEN MsgNotFound
        ELSE IF ~accounts[a].eligibleForWithdrawal THEN MsgNotEligible
        ELSE IF amount > accounts[a].balance THEN MsgInsufficient
        ELSE IF amount * 100 > accounts[a].balance * MaximumWithdrawalPercentage
             THEN MsgOverMaximum
        ELSE ""

(* account.withdrawalHistory.push(transaction); account.balance -= amount. *)
(* The field call stands for the identity of the transaction object.       *)
ApplyWithdrawal(accounts, a, txnId, amount, call) ==
    [ accounts EXCEPT
        ![a].withdrawalHistory =
            Append(@, [id |-> txnId, amount |-> amount, status |-> "PENDING", call |-> call]),
        ![a].balance = @ - amount ]

(* pubsub.publish(topic, payload): the event is handed to every listener   *)
(* registered for the topic at that moment, synchronously.                 *)
(* The field handed of a subscription keeps every event its listener was   *)
(* called with.                                                            *)

(* a bus of competing consumers: only the first listener gets the event *)
EnqueueFirstListenerOnly(ss, topic, e) ==
    LET listeners == { i \in 1..Len(ss) : ss[i].active /\ ss[i].topic = topic }
    IN  [ i \in 1..Len(ss) |->
            IF i \in listeners /\ \A j \in listeners : i <= j
            THEN [ ss[i] EXCEPT !.queue = Append(@, e), !.handed = Append(@, e) ]
            ELSE ss[i] ]

(* a bus whose iterators hand out the newest event first *)
EnqueueFront(ss, topic, e) ==
    [ i \in 1..Len(ss) |->
        IF ss[i].active /\ ss[i].topic = topic
        THEN [ ss[i] EXCEPT !.queue = <<e>> \o @, !.handed = Append(@, e) ]
        ELSE ss[i] ]

(* a bus that keeps the listener of a cancelled subscription *)
EnqueueAlsoCancelled(ss, topic, e) ==
    [ i \in 1..Len(ss) |->
        IF ss[i].topic = topic
        THEN [ ss[i] EXCEPT !.queue = Append(@, e), !.handed = Append(@, e) ]
        ELSE ss[i] ]

Enqueue(ss, topic, e) ==
    [ i \in 1..Len(ss) |->
        IF ss[i].active /\ ss[i].topic = topic
        THEN [ ss[i] EXCEPT !.queue = Append(@, e), !.handed = Append(@, e) ]
        ELSE ss[i] ]

Publish(topic, call, accountId, payload) ==
    /\ pubLog' = Append(pubLog, [topic |-> topic, call |-> call,
                                 accountId |-> accountId, payload |-> payload])
    /\ subs' = Enqueue(subs, topic, Len(pubLog) + 1)

(* One call of a mutation: where it stands (pc), what it returned or threw *)
(* (success, message), the account it found (0: none) and, for a           *)
(* withdrawal, the balance its own update left.                            *)
CallRecord(op, pc, success, message, account, balanceAfter) ==
    [ op |-> op, pc |-> pc, success |-> success,
      message |-> message, account |-> account, balanceAfter |-> balanceAfter ]

(* requestWithdrawal that runs its checks on the balance the account had   *)
(* when the server started, not on the one it then reduces                 *)
RequestWithdrawalStaleBalance(accountId, amount, suffix) ==
    LET n == Len(calls) + 1
        a == FindAccount(db, accountId)
        txnId == TxnId(suffix)
        refusal == WithdrawalRefusal(InitialAccounts, accountId, amount)
    IN  /\ Len(calls) < MaxCalls
        /\ IF refusal # ""
           THEN /\ calls' = Append(calls, CallRecord("requestWithdrawal", "done", FALSE, refusal, a, 0))
                /\ UNCHANGED <<db, pubLog, subs>>
           ELSE /\ db' = ApplyWithdrawal(db, a, txnId, amount, n)
                /\ Publish(WITHDRAWAL_STATUS_CHANGED, n, accountId,
                           [id |-> txnId, amount |-> amount, status |-> "PENDING", call |-> n])
                /\ calls' = Append(calls, CallRecord("requestWithdrawal", "pub2", FALSE, "", a,
                                                     db[a].balance - amount))
        /\ UNCHANGED lastRequest

(* requestWithdrawal that updates the store before the last check *)
RequestWithdrawalApplyFirst(accountId, amount, suffix) ==
    LET n == Len(calls) + 1
        a == FindAccount(db, accountId)
        txnId == TxnId(suffix)
        refusal == WithdrawalRefusal(db, accountId, amount)
    IN  /\ Len(calls) < MaxCalls
        /\ IF refusal = MsgOverMaximum
           THEN /\ db' = ApplyWithdrawal(db, a, txnId, amount, n)
                /\ calls' = Append(calls, CallRecord("requestWithdrawal", "done", FALSE, refusal, a, 0))
                /\ UNCHANGED <<pubLog, subs>>
           ELSE IF refusal # ""
           THEN /\ calls' = Append(calls, CallRecord("requestWithdrawal", "done", FALSE, refusal, a, 0))
                /\ UNCHANGED <<db, pubLog, subs>>
           ELSE /\ db' = ApplyWithdrawal(db, a, txnId, amount, n)
                /\ Publish(WITHDRAWAL_STATUS_CHANGED, n, accountId,
                           [id |-> txnId, amount |-> amount, status |-> "PENDING", call |-> n])
                /\ calls' = Append(calls, CallRecord("requestWithdrawal", "pub2", FALSE, "", a,
                                                     db[a].balance - amount))
        /\ UNCHANGED lastRequest

(* requestWithdrawal up to its first await: the checks; on a refusal the   *)
(* return of {success: false, message}; otherwise the new transaction, the *)
(* update of the account and pubsub.publish(WITHDRAWAL_STATUS_CHANGED).    *)
RequestWithdrawal(accountId, amount, suffix) ==
    LET n == Len(calls) + 1
        a == FindAccount(db, accountId)
        txnId == TxnId(suffix)
        refusal == WithdrawalRefusal(db, accountId, amount)
    IN  /\ Len(calls) < MaxCalls
        /\ IF refusal # ""
           THEN /\ calls' = Append(calls, CallRecord("requestWithdrawal", "done", FALSE, refusal, a, 0))
                /\ UNCHANGED <<db, pubLog, subs>>
           ELSE /\ db' = ApplyWithdrawal(db, a, txnId, amount, n)
                /\ Publish(WITHDRAWAL_STATUS_CHANGED, n, accountId,
                           [id |-> txnId, amount |-> amount, status |-> "PENDING", call |-> n])
                /\ calls' = Append(calls, CallRecord("requestWithdrawal", "pub2", FALSE, "", a,
                                                     db[a].balance - amount))
        /\ UNCHANGED lastRequest

(* requestWithdrawal after the first await:                                *)
(* pubsub.publish(ACCOUNT_BALANCE_CHANGED, {accountBalanceChanged: account,*)
(* accountId}); the payload is the account object itself.                  *)
PublishBalanceChanged(n) ==
    /\ n \in 1..Len(calls)
    /\ calls[n].pc = "pub2"
    /\ Publish(ACCOUNT_BALANCE_CHANGED, n, db[calls[n].account].id,
               Ref("account", calls[n].account))
    /\ calls' = [ calls EXCEPT ![n].pc = "ret" ]
    /\ UNCHANGED <<db, lastRequest>>

(* requestWithdrawal after the second await: return {success: true, ...} *)
ReturnWithdrawal(n) ==
    /\ n \in 1..Len(calls)
    /\ calls[n].pc = "ret"
    /\ calls' = [ calls EXCEPT ![n].pc = "done", ![n].success = TRUE,
                               ![n].message = MsgSubmitted ]
    /\ UNCHANGED <<db, pubLog, subs, lastRequest>>

(* updateAccountStatus: throws for an unknown account, else sets the status *)
UpdateAccountStatus(accountId, status) ==
    LET a == FindAccount(db, accountId)
    IN  /\ Len(calls) < MaxCalls
        /\ IF a = 0
           THEN /\ calls' = Append(calls, CallRecord("updateAccountStatus", "done", FALSE, MsgNotFound, a, 0))
                /\ UNCHANGED db
           ELSE /\ db' = [ db EXCEPT ![a].status = status ]
                /\ calls' = Append(calls, CallRecord("updateAccountStatus", "done", TRUE, "", a, 0))
        /\ UNCHANGED <<pubLog, subs, lastRequest>>

RECURSIVE SumPercentages(_)
SumPercentages(bens) ==
    IF bens = << >> THEN 0 ELSE Head(bens).percentage + SumPercentages(Tail(bens))

(* addBeneficiary without the check of the total *)
AddBeneficiaryUnchecked(accountId, percentage, suffix) ==
    LET a == FindAccount(db, accountId)
    IN  /\ Len(calls) < MaxCalls
        /\ IF a = 0
           THEN /\ calls' = Append(calls, CallRecord("addBeneficiary", "done", FALSE, MsgNotFound, a, 0))
                /\ UNCHANGED db
           ELSE /\ db' = [ db EXCEPT ![a].beneficiaries =
                             Append(@, [id |-> BenId(suffix), percentage |-> percentage]) ]
                /\ calls' = Append(calls, CallRecord("addBeneficiary", "done", TRUE, "", a, 0))
        /\ UNCHANGED <<pubLog, subs, lastRequest>>

(* addBeneficiary: throws for an unknown account and for a total above 100, *)
(* else appends the beneficiary                                            *)
AddBeneficiary(accountId, percentage, suffix) ==
    LET a == FindAccount(db, accountId)
        refusal == IF a = 0 THEN MsgNotFound
                   ELSE IF SumPercentages(db[a].beneficiaries) + percentage > 100
                        THEN MsgOverHundred
                   ELSE ""
    IN  /\ Len(calls) < MaxCalls
        /\ IF refusal # ""
           THEN /\ calls' = Append(calls, CallRecord("addBeneficiary", "done", FALSE, refusal, a, 0))
                /\ UNCHANGED db
           ELSE /\ db' = [ db EXCEPT ![a].beneficiaries =
                             Append(@, [id |-> BenId(suffix), percentage |-> percentage]) ]
                /\ calls' = Append(calls, CallRecord("addBeneficiary", "done", TRUE, "", a, 0))
        /\ UNCHANGED <<pubLog, subs, lastRequest>>

(* Subscription.<field>.subscribe: pubsub.asyncIterator([topic]); the      *)
(* accountId argument is not used.  since and until keep how many events   *)
(* had been published when the subscription was opened and cancelled.      *)
Subscribe(topic, accountId) ==
    /\ subs' = Append(subs, [topic |-> topic, accountId |-> accountId, active |-> TRUE,
                             queue |-> << >>, received |-> << >>, handed |-> << >>,
                             since |-> Len(pubLog), until |-> None])
    /\ UNCHANGED <<db, calls, pubLog, lastRequest>>

TxnInStore(accounts, call) ==
    \E a \in 1..Len(accounts) :
        \E t \in 1..Len(accounts[a].withdrawalHistory) :
            accounts[a].withdrawalHistory[t].call = call

(* The subscriber takes the next event of its queue and the resolve        *)
(* function returns payload.<field>; the fields of an account payload are  *)
(* read from the account object at that moment.                            *)
Deliver(i) ==
    /\ i \in 1..Len(subs)
    /\ subs[i].queue # << >>
    /\ LET e == Head(subs[i].queue)
           ev == pubLog[e]
           seen == IF ev.topic = ACCOUNT_BALANCE_CHANGED
                   THEN db[ev.payload.idx].balance
                   ELSE ev.payload.amount
       IN  subs' = [ subs EXCEPT
                       ![i].queue = Tail(@),
                       ![i].received = Append(@, [event |-> e, seen |-> seen,
                                                  stored |-> TxnInStore(db, ev.call)]) ]
    /\ UNCHANGED <<db, calls, pubLog, lastRequest>>

(* The client ends the subscription: the iterator's return() empties its   *)
(* queue and removes its listener.                                         *)
Cancel(i) ==
    /\ i \in 1..Len(subs)
    /\ subs[i].active
    /\ subs' = [ subs EXCEPT ![i].active = FALSE, ![i].queue = << >>,
                             ![i].until = Some(Len(pubLog)) ]
    /\ UNCHANGED <<db, calls, pubLog, lastRequest>>

(* index.ts: createYoga({schema, cors}) is given no context factory, so    *)
(* the context of a request holds what yoga puts there and no loaders.     *)
YogaContext == [ loaders |-> None ]

ReturnedWithdrawals ==
    { n \in 1..Len(calls) : calls[n].op = "requestWithdrawal" /\ calls[n].pc = "done"
                               /\ calls[n].success }

(* What a request records: its context, whether it ended without an error, *)
(* whether a successful withdrawal had returned before it, and whether the *)
(* accounts it read hold the transaction of every such withdrawal.         *)
RequestRecord(ok, accounts) ==
    [ context |-> YogaContext, ok |-> ok,
      afterReturn |-> ReturnedWithdrawals # {},
      reflects |-> ok /\ \A n \in ReturnedWithdrawals : TxnInStore(accounts, n) ]

(* A query whose resolver reads db itself: allPensionAccounts *)
AllPensionAccounts ==
    /\ lastRequest' = Some(RequestRecord(TRUE, db))
    /\ UNCHANGED <<db, calls, pubLog, subs>>

LoaderFields == { "pensionAccount", "accountTransactions", "accountBeneficiaries",
                  "pensionAccounts" }

(* A query whose resolver goes through context.loaders: ({ loaders }) =>   *)
(* loaders.<x>Loader.load(id) throws a TypeError when loaders is undefined; *)
(* a loader reads the db that loaders.ts imports.                          *)
QueryThroughLoader(field) ==
    /\ field \in LoaderFields
    /\ lastRequest' = Some(RequestRecord(IsSome(YogaContext.loaders), loaderDb))
    /\ UNCHANGED <<db, calls, pubLog, subs>>

ServerIdle ==
    /\ db = InitialAccounts
    /\ calls = << >>
    /\ pubLog = << >>
    /\ subs = << >>
    /\ lastRequest = None

CacheIdle ==
    /\ apCache = << >>
    /\ apWrites = 0

MonitorIdle ==
    /\ pmSource = << >>
    /\ pmMetrics = << >>
    /\ pmAdded = << >>
    /\ pmLast = None

ClientIdle == CacheIdle /\ MonitorIdle

(* LoaderSpec: one loader instance, as a factory of loaders.ts returns it *)
LoaderInit ==
    /\ loaderDb = LoaderStoreAccounts
    /\ ldKind \in LoaderKinds
    /\ loader = NewLoader
    /\ ldPromises = << >>
    /\ ldCalls = << >>
    /\ ldInflight = None
    /\ ldFetchLog = << >>
    /\ ldWin = 1
    /\ ldDone = {}
    /\ PagerIdle
    /\ ServerIdle
    /\ ClientIdle

LoaderNext ==
    \/ \E k \in LoaderKeys : Load(k) /\ UNCHANGED <<pagerVars, serverVars, clientVars>>
    \/ \E ks \in KeyLists : LoadMany(ks) /\ UNCHANGED <<pagerVars, serverVars, clientVars>>
    \/ Dispatch /\ UNCHANGED <<pagerVars, serverVars, clientVars>>
    \/ Settle /\ UNCHANGED <<pagerVars, serverVars, clientVars>>

LoaderSpec == LoaderInit /\ [][LoaderNext]_vars

(* LoaderFailSpec: one loader instance whose batch function may fail *)
LoaderFailInit == LoaderInit

LoaderFailNext ==
    \/ \E k \in LoaderKeys : Load(k) /\ UNCHANGED <<pagerVars, serverVars, clientVars>>
    \/ \E ks \in KeyLists : LoadMany(ks) /\ UNCHANGED <<pagerVars, serverVars, clientVars>>
    \/ Dispatch /\ UNCHANGED <<pagerVars, serverVars, clientVars>>
    \/ DispatchRejected /\ UNCHANGED <<pagerVars, serverVars, clientVars>>
    \/ Settle /\ UNCHANGED <<pagerVars, serverVars, clientVars>>

LoaderFailSpec == LoaderFailInit /\ [][LoaderFailNext]_vars

(* A withdrawalHistory one element longer than the default page size: the *)
(* transactions 'TXNa', 'TXNb', ... of as many withdrawals                 *)
LongHistory == [ i \in 1..(DefaultFirst + 1) |-> TxnId(<<96 + i>>) ]

(* PagerSpec: the pager applied to drawn collections of distinct ids *)
PagerInit ==
    /\ pgColl \in InjSeqs(IdPool, MaxColl) \cup { LongHistory }
    /\ pgMode = "idle"
    /\ pgArgs = NoArgs
    /\ pgPage = NoPage
    /\ pgAcc = <<>>
    /\ pgPages = 0
    /\ LoaderIdle
    /\ ServerIdle
    /\ ClientIdle

PagerNext ==
    \/ \E first, last \in MaybeCount, after, before \in MaybeCursor :
           PaginateCall(first, after, last, before) /\ UNCHANGED <<loaderVars, serverVars, clientVars>>
    \/ \E f \in 1..MaxFirst : FirstPage(f) /\ UNCHANGED <<loaderVars, serverVars, clientVars>>
    \/ HandleNextPage /\ UNCHANGED <<loaderVars, serverVars, clientVars>>

PagerSpec == PagerInit /\ [][PagerNext]_vars

(* Spec: the server *)
Init ==
    /\ ServerIdle
    /\ ClientIdle
    /\ LoaderIdle
    /\ PagerIdle

Next ==
    \/ \E a \in AccountIds, amt \in Amounts, t \in RandomSuffixes :
           RequestWithdrawal(a, amt, t) /\ UNCHANGED <<pagerVars, loaderVars, clientVars>>
    \/ \E n \in 1..MaxCalls : PublishBalanceChanged(n) /\ UNCHANGED <<pagerVars, loaderVars, clientVars>>
    \/ \E n \in 1..MaxCalls : ReturnWithdrawal(n) /\ UNCHANGED <<pagerVars, loaderVars, clientVars>>
    \/ \E a \in AccountIds, st \in Statuses :
           UpdateAccountStatus(a, st) /\ UNCHANGED <<pagerVars, loaderVars, clientVars>>
    \/ \E a \in AccountIds, pct \in Percentages, b \in RandomSuffixes :
           AddBeneficiary(a, pct, b) /\ UNCHANGED <<pagerVars, loaderVars, clientVars>>
    \/ \E t \in Topics, a \in AccountIds :
           Len(subs) < MaxSubs /\ Subscribe(t, a) /\ UNCHANGED <<pagerVars, loaderVars, clientVars>>
    \/ \E i \in 1..MaxSubs : Deliver(i) /\ UNCHANGED <<pagerVars, loaderVars, clientVars>>
    \/ \E i \in 1..MaxSubs : Cancel(i) /\ UNCHANGED <<pagerVars, loaderVars, clientVars>>
    \/ AllPensionAccounts /\ UNCHANGED <<pagerVars, loaderVars, clientVars>>
    \/ \E f \in LoaderFields : QueryThroughLoader(f) /\ UNCHANGED <<pagerVars, loaderVars, clientVars>>

Spec == Init /\ [][Next]_vars

(* MutationSpec: the mutation resolvers alone, calls interleaving at their *)
(* awaits                                                                  *)
MutationInit ==
    /\ ServerIdle
    /\ ClientIdle
    /\ LoaderIdle
    /\ PagerIdle

MutationNext ==
    \/ \E a \in AccountIds, amt \in Amounts, t \in RandomSuffixes :
           RequestWithdrawal(a, amt, t) /\ UNCHANGED <<pagerVars, loaderVars, clientVars>>
    \/ \E n \in 1..MaxCalls : PublishBalanceChanged(n) /\ UNCHANGED <<pagerVars, loaderVars, clientVars>>
    \/ \E n \in 1..MaxCalls : ReturnWithdrawal(n) /\ UNCHANGED <<pagerVars, loaderVars, clientVars>>
    \/ \E a \in AccountIds, st \in Statuses :
           UpdateAccountStatus(a, st) /\ UNCHANGED <<pagerVars, loaderVars, clientVars>>
    \/ \E a \in AccountIds, pct \in Percentages, b \in RandomSuffixes :
           AddBeneficiary(a, pct, b) /\ UNCHANGED <<pagerVars, loaderVars, clientVars>>

MutationSpec == MutationInit /\ [][MutationNext]_vars

(* BusSpec: the PubSub bus with its subscriptions and the one mutation     *)
(* that publishes to it: requestWithdrawal on account '1' with an amount   *)
(* that is accepted, the n-th call drawing the n-th suffix 'a', 'b', ...   *)
(* The calls are followed up to their second publish: the return that      *)
(* follows it reads and writes nothing of the bus or the store.            *)
BusAmounts == { 10000 }

BusInit ==
    /\ ServerIdle
    /\ ClientIdle
    /\ LoaderIdle
    /\ PagerIdle

BusNext ==
    \/ \E amt \in BusAmounts :
           RequestWithdrawal(DigitId(1), amt, <<97 + Len(calls)>>)
               /\ UNCHANGED <<pagerVars, loaderVars, clientVars>>
    \/ \E n \in 1..MaxCalls : PublishBalanceChanged(n) /\ UNCHANGED <<pagerVars, loaderVars, clientVars>>
    \/ \E t \in Topics :
           /\ Len(subs) < MaxListeners
           /\ Subscribe(t, DigitId(1))
           /\ UNCHANGED <<pagerVars, loaderVars, clientVars>>
    \/ \E i \in 1..MaxListeners : Deliver(i) /\ UNCHANGED <<pagerVars, loaderVars, clientVars>>
    \/ \E i \in 1..MaxListeners : Cancel(i) /\ UNCHANGED <<pagerVars, loaderVars, clientVars>>

BusSpec == BusInit /\ [][BusNext]_vars

----------------------------------------------------------------------------
(* The portal's cache policy for Query.paginatedAccounts (apollo.ts).      *)
(* The policy names no keyArgs, so InMemoryCache keeps one entry per       *)
(* combination of arguments; merge(existing, incoming, {args}) is called   *)
(* on every write with the entry of the written arguments as existing.     *)

MaxWrites == 2   \* query results written to the cache

(* db.accounts, the collection paginatedAccounts pages over *)
CacheCollection == [ i \in 1..Len(InitialAccounts) |-> InitialAccounts[i].id ]

CacheCursors == { Base64(CacheCollection[i]) : i \in 1..Len(CacheCollection) }

(* The arguments of one paginatedAccounts field; None: a field without     *)
(* arguments, for which args is null                                       *)
CacheArgs ==
    { None } \cup
    { Some([first |-> f, after |-> a, last |-> l, before |-> b]) :
        f \in { None, Some(1) }, l \in { None, Some(1) },
        a \in { None } \cup { Some(c) : c \in CacheCursors },
        b \in { None } \cup { Some(c) : c \in CacheCursors } }

(* typePolicies.Query.fields.paginatedAccounts.merge *)
Merge(existing, incoming, args) ==
    IF ~IsSome(args) THEN incoming
    ELSE IF ~TruthyStr(Val(args).after) /\ ~TruthyStr(Val(args).before) THEN incoming
    ELSE [ incoming EXCEPT !.edges =
             (IF IsSome(existing) THEN Val(existing).edges ELSE << >>) \o incoming.edges ]

(* typePolicies.Query.fields.paginatedAccounts.read *)
Read(existing) == existing

(* The result of a paginatedAccounts query with these arguments reaches    *)
(* the cache (useQuery, fetchMore or a refetch)                            *)
WriteResult(args) ==
    LET incoming == Paginate(CacheCollection, IF IsSome(args) THEN Val(args) ELSE NoArgs)
    IN  /\ apWrites < MaxWrites
        /\ apCache' = [ apCache EXCEPT ![args] = Some(Merge(apCache[args], incoming, args)) ]
        /\ apWrites' = apWrites + 1

CacheInit ==
    /\ apCache = [ args \in CacheArgs |-> None ]
    /\ apWrites = 0
    /\ MonitorIdle
    /\ PagerIdle
    /\ LoaderIdle
    /\ ServerIdle

CacheNext ==
    \E args \in CacheArgs :
        WriteResult(args) /\ UNCHANGED <<pagerVars, loaderVars, serverVars, monitorVars>>

CacheSpec == CacheInit /\ [][CacheNext]_vars

----------------------------------------------------------------------------
(* The portal's performance monitor (apollo/links/performance.ts): one     *)
(* PerformanceMonitor instance, fed by performanceLink with one metric per *)
(* operation and read by the PerformanceMonitor component.                 *)

MaxStoredMetrics == 100

MaxAdds == 102   \* addMetric calls made on the monitor
MaxPattern == 2  \* period of the metrics the session's operations produce

(* duration, cacheHit and errorCount of a metric: a fast operation served  *)
(* from the cache and a slow one that came back with an error              *)
MetricKinds ==
    { [duration |-> 200, cacheHit |-> TRUE, errorCount |-> 0],
      [duration |-> 1500, cacheHit |-> FALSE, errorCount |-> 1] }

(* The metric performanceLink builds for the n-th operation; the field     *)
(* call stands for the identity of the metric object.                      *)
MetricOf(source, n) ==
    LET kind == source[((n - 1) % Len(source)) + 1]
    IN  [call |-> n, duration |-> kind.duration, cacheHit |-> kind.cacheHit,
         errorCount |-> kind.errorCount]

(* A quotient num / den of two integers, kept exact *)
Quotient(num, den) == [num |-> num, den |-> den]
Zero == Quotient(0, 1)

RECURSIVE SumDuration(_)
SumDuration(ms) ==
    IF ms = << >> THEN 0 ELSE Head(ms).duration + SumDuration(Tail(ms))

RECURSIVE SumErrorCount(_)
SumErrorCount(ms) ==
    IF ms = << >> THEN 0 ELSE Head(ms).errorCount + SumErrorCount(Tail(ms))

(* addMetric that evicts the metric just pushed *)
AddMetricEvictNewest ==
    LET metric == MetricOf(pmSource, Len(pmAdded) + 1)
        pushed == Append(pmMetrics, metric)
    IN  /\ Len(pmAdded) < MaxAdds
        /\ pmMetrics' = IF Len(pushed) > MaxStoredMetrics
                        THEN SubSeq(pushed, 1, Len(pushed) - 1) ELSE pushed
        /\ pmAdded' = Append(pmAdded, metric)
        /\ pmLast' = None
        /\ UNCHANGED pmSource

(* addMetric(metric): push, then shift when over maxStoredMetrics; the     *)
(* call returns nothing.                                                   *)
AddMetric ==
    LET metric == MetricOf(pmSource, Len(pmAdded) + 1)
        pushed == Append(pmMetrics, metric)
    IN  /\ Len(pmAdded) < MaxAdds
        /\ pmMetrics' = IF Len(pushed) > MaxStoredMetrics THEN Tail(pushed) ELSE pushed
        /\ pmAdded' = Append(pmAdded, metric)
        /\ pmLast' = None
        /\ UNCHANGED pmSource

GetterResult(getter, value) ==
    Some([getter |-> getter, stored |-> Len(pmMetrics), value |-> value])

GetAverageResponseTime ==
    /\ pmLast' = GetterResult("getAverageResponseTime",
                     IF Len(pmMetrics) = 0 THEN Zero
                     ELSE Quotient(SumDuration(pmMetrics), Len(pmMetrics)))
    /\ UNCHANGED <<pmSource, pmMetrics, pmAdded>>

GetCacheHitRate ==
    /\ pmLast' = GetterResult("getCacheHitRate",
                     IF Len(pmMetrics) = 0 THEN Zero
                     ELSE Quotient(Len(SelectSeq(pmMetrics, LAMBDA metric : metric.cacheHit))
                                       * 100, Len(pmMetrics)))
    /\ UNCHANGED <<pmSource, pmMetrics, pmAdded>>

GetErrorRate ==
    /\ pmLast' = GetterResult("getErrorRate",
                     IF Len(pmMetrics) = 0 THEN Zero
                     ELSE Quotient(SumErrorCount(pmMetrics) * 100, Len(pmMetrics)))
    /\ UNCHANGED <<pmSource, pmMetrics, pmAdded>>

MonitorInit ==
    /\ pmSource \in [ 1..MaxPattern -> MetricKinds ]
    /\ pmMetrics = << >>
    /\ pmAdded = << >>
    /\ pmLast = None
    /\ CacheIdle
    /\ PagerIdle
    /\ LoaderIdle
    /\ ServerIdle

MonitorNext ==
    \/ AddMetric /\ UNCHANGED <<pagerVars, loaderVars, serverVars, cacheVars>>
    \/ GetAverageResponseTime /\ UNCHANGED <<pagerVars, loaderVars, serverVars, cacheVars>>
    \/ GetCacheHitRate /\ UNCHANGED <<pagerVars, loaderVars, serverVars, cacheVars>>
    \/ GetErrorRate /\ UNCHANGED <<pagerVars, loaderVars, serverVars, cacheVars>>

MonitorSpec == MonitorInit /\ [][MonitorNext]_vars

----------------------------------------------------------------------------
(* Claims about one loader instance, checked under LoaderSpec *)

WindowCalls(w) == SelectSeq(ldCalls, LAMBDA h : h.window = w)
WindowFetches(w) == SelectSeq(ldFetchLog, LAMBDA e : e.window = w)
CallKeys(hs) == [ i \in 1..Len(hs) |-> hs[i].key ]

(* The keys of a sequence without those in seen, each at its first occurrence *)
RECURSIVE FirstOccurrences(_, _)
FirstOccurrences(ks, seen) ==
    IF ks = << >> THEN << >>
    ELSE IF Head(ks) \in seen THEN FirstOccurrences(Tail(ks), seen)
    ELSE <<Head(ks)>> \o FirstOccurrences(Tail(ks), seen \cup {Head(ks)})

LoadedBefore(w) == { ldCalls[i].key : i \in { j \in 1..Len(ldCalls) : ldCalls[j].window < w } }

\* C1 as stated: the keys k1..kn loaded in one flush window reach the
\* batch function in exactly one invocation, as exactly k1..kn (duplicates
\* kept), and the i-th load resolves to the i-th returned result.
C1_BatchExactKeys ==
    \A w \in ldDone :
        LET wcalls == WindowCalls(w)
            fetches == WindowFetches(w)
        IN  /\ Len(fetches) = 1
            /\ fetches[1].keys = CallKeys(wcalls)
            /\ \A i \in 1..Len(wcalls) :
                   /\ HandleResolved(ldPromises, ldDone, wcalls[i])
                   /\ ldPromises[wcalls[i].promise].value = fetches[1].values[i]

\* C1 as amended: for the keys k1..kn loaded in one flush window the batch
\* function is invoked at most once: exactly once if some key was not loaded
\* on the instance before, with the distinct not-yet-loaded keys in order of
\* first occurrence, and not at all otherwise; the i-th load resolves to the
\* result the batch function returns for ki.
C1_BatchDistinctKeys ==
    \A w \in ldDone :
        LET wcalls == WindowCalls(w)
            fetches == WindowFetches(w)
            fresh == FirstOccurrences(CallKeys(wcalls), LoadedBefore(w))
        IN  /\ Len(fetches) <= 1
            /\ fresh # << >> => Len(fetches) = 1 /\ fetches[1].keys = fresh
            /\ fresh = << >> => fetches = << >>
            /\ \A i \in 1..Len(wcalls) :
                   /\ HandleResolved(ldPromises, ldDone, wcalls[i])
                   /\ ldPromises[wcalls[i].promise].value =
                          BatchResult(ldKind, loaderDb, wcalls[i].key)
                   /\ \A j \in 1..Len(fresh) :
                          fresh[j] = wcalls[i].key =>
                              ldPromises[wcalls[i].promise].value = fetches[1].values[j]

C1_Witness ==
    \E w \in ldDone :
        /\ CallKeys(WindowCalls(w)) = <<DigitId(1), DigitId(2), DigitId(1)>>
        /\ Len(WindowFetches(w)) = 1
        /\ WindowFetches(w)[1].keys = <<DigitId(1), DigitId(2)>>
        /\ \A i \in 1..3 : HandleResolved(ldPromises, ldDone, WindowCalls(w)[i])

\* C2: once a load(k) has resolved, every later load(k) on the instance
\* resolves to the same result, and no invocation of the batch function from
\* that load's window on has k among its keys.
C2_CachedAfterResolve ==
    \A i \in 1..Len(ldCalls) :
        ldCalls[i].priorResolved =>
            /\ \A n \in 1..Len(ldFetchLog) :
                   ldFetchLog[n].window >= ldCalls[i].window =>
                       ldCalls[i].key \notin Range(ldFetchLog[n].keys)
            /\ ldCalls[i].window \in ldDone =>
                   /\ HandleResolved(ldPromises, ldDone, ldCalls[i])
                   /\ \A j \in 1..(i - 1) :
                          (/\ ldCalls[j].key = ldCalls[i].key
                           /\ HandleResolved(ldPromises, ldDone, ldCalls[j])) =>
                              ldPromises[ldCalls[j].promise].value =
                                  ldPromises[ldCalls[i].promise].value

C2_Witness ==
    \E i \in 1..Len(ldCalls) :
        /\ ldCalls[i].priorResolved
        /\ HandleResolved(ldPromises, ldDone, ldCalls[i])
        /\ Len(ldFetchLog) >= 2

\* The flush windows whose batch function failed and whose failure the
\* loader has handled
FailedWindows == { ldFetchLog[n].window : n \in { m \in 1..Len(ldFetchLog) :
                       ldFetchLog[m].rejected /\ ldFetchLog[m].window \in ldDone } }

----------------------------------------------------------------------------
(* Claims about the pager, checked under PagerSpec *)

OnlyFirst == /\ pgMode = "call"
             /\ IsSome(pgArgs.first)
             /\ pgArgs.after = None /\ pgArgs.before = None /\ pgArgs.last = None

\* C8: with only first = f (a non-negative integer) on a collection of N
\* elements, f < N gives exactly f edges and hasNextPage = true, and f >= N
\* gives all N edges and hasNextPage = false.
C8_FirstExact ==
    OnlyFirst =>
        LET f == Val(pgArgs.first)
            N == Len(pgColl)
        IN  /\ f < N => Len(pgPage.edges) = f /\ pgPage.hasNextPage
            /\ f >= N => Len(pgPage.edges) = N /\ ~pgPage.hasNextPage

\* The failing input of C8: first = 0 on a non-empty collection returns every
\* element and hasNextPage = false.
C8_ZeroFirstReturnsAll ==
    (OnlyFirst /\ Val(pgArgs.first) = 0) =>
        Nodes(pgPage) = pgColl /\ ~pgPage.hasNextPage

\* C9 as stated: paginating an empty collection yields no edges, hasNextPage
\* = hasPreviousPage = false, no start or end cursor and totalCount = 0,
\* whatever first, after, last and before are.
C9_EmptyCollection ==
    (pgMode = "call" /\ pgColl = <<>>) =>
        /\ pgPage.edges = <<>>
        /\ ~pgPage.hasNextPage
        /\ ~pgPage.hasPreviousPage
        /\ pgPage.startCursor = None
        /\ pgPage.endCursor = None
        /\ pgPage.totalCount = 0

\* C9 as amended: paginating an empty collection yields no edges, hasNextPage
\* = false, no start or end cursor and totalCount = 0 for every combination
\* of the arguments; hasPreviousPage is false unless a non-empty after or a
\* non-zero last is supplied, and true when one is.
C9_EmptyCollectionAmended ==
    (pgMode = "call" /\ pgColl = <<>>) =>
        /\ pgPage.edges = <<>>
        /\ ~pgPage.hasNextPage
        /\ pgPage.hasPreviousPage <=>
               (TruthyStr(pgArgs.after) \/ TruthyNum(pgArgs.last))
        /\ pgPage.startCursor = None
        /\ pgPage.endCursor = None
        /\ pgPage.totalCount = 0

C9_Witness ==
    /\ pgMode = "call"
    /\ pgColl = <<>>
    /\ TruthyStr(pgArgs.before)
    /\ TruthyNum(pgArgs.first)
    /\ ~pgPage.hasPreviousPage

\* C10: a forward traversal (first page with first = f >= 1, then first = f
\* and after = the previous endCursor while hasNextPage) returns the elements
\* of the collection exactly once and in order: after p pages the fetched
\* nodes are the first min(p * f, N) elements, page p holding elements
\* (p-1)*f+1 .. min(p*f, N); every page after the first reports
\* hasPreviousPage; hasNextPage is true exactly while elements remain, so the
\* traversal ends with a page whose hasNextPage is false and all N fetched.
C10_ForwardTraversal ==
    pgMode = "trav" =>
        LET f == Val(pgArgs.first)
            N == Len(pgColl)
        IN  /\ pgAcc = SubSeq(pgColl, 1, Min(pgPages * f, N))
            /\ Nodes(pgPage) = SubSeq(pgColl, (pgPages - 1) * f + 1, Min(pgPages * f, N))
            /\ pgPages > 1 => pgPage.hasPreviousPage
            /\ pgPage.hasNextPage <=> Len(pgAcc) < N
            /\ ~pgPage.hasNextPage => pgAcc = pgColl

C10_Witness ==
    /\ pgMode = "trav"
    /\ pgPages >= 2
    /\ ~pgPage.hasNextPage
    /\ pgAcc = pgColl
    /\ Len(pgColl) >= 3

\* The positions of the collection whose element has the cursor c
CursorHits(coll, c) == { i \in 1..Len(coll) : Base64(coll[i]) = c }

\* The positions of the collection at which the nodes of a page stand
NodePositions(coll, page) ==
    { i \in 1..Len(coll) : \E k \in 1..Len(page.edges) : page.edges[k].node = coll[i] }

\* The last k elements of a sequence, all of them when it has fewer
LastOf(seq, k) == SubSeq(seq, Len(seq) - Min(k, Len(seq)) + 1, Len(seq))

\* The first k elements of a sequence, all of them when it has fewer
FirstOf(seq, k) == SubSeq(seq, 1, Min(k, Len(seq)))

\* The elements that remain after the after-filter and the before-filter
Remaining == BeforeFilter(AfterFilter(pgColl, pgArgs.after), pgArgs.before)

\* C11: totalCount of every page is the size of the full collection at the
\* time of the call, whatever the arguments are and however many edges the
\* page holds.
C11_TotalCount ==
    pgMode # "idle" => pgPage.totalCount = Len(pgColl)

C11_Witness ==
    /\ pgMode = "call"
    /\ TruthyStr(pgArgs.after) /\ TruthyNum(pgArgs.last)
    /\ Len(pgPage.edges) = 1
    /\ pgPage.totalCount = 3

\* C16: when after matches an element, every element up to and including it
\* is dropped, and the page (no before, no last, first not 0) starts with
\* the element that follows it; when after matches no element, the page is
\* the one computed without after, from the full collection: with no other
\* argument its first DefaultFirst elements.
C16_AfterCursor ==
    (pgMode = "call" /\ IsSome(pgArgs.after)) =>
        LET hits == CursorHits(pgColl, Val(pgArgs.after))
        IN  IF hits # {}
            THEN LET i == CHOOSE h \in hits : TRUE
                 IN  /\ \A j \in NodePositions(pgColl, pgPage) : j > i
                     /\ (/\ pgArgs.before = None /\ pgArgs.last = None
                         /\ pgArgs.first # Some(0) /\ i < Len(pgColl))
                            => /\ pgPage.edges # <<>>
                               /\ pgPage.edges[1].node = pgColl[i + 1]
            ELSE /\ Nodes(pgPage) = Nodes(Paginate(pgColl, [pgArgs EXCEPT !.after = None]))
                 /\ (pgArgs.before = None /\ pgArgs.last = None /\ pgArgs.first = None)
                        => Nodes(pgPage) = FirstOf(pgColl, DefaultFirst)

C16_Witness ==
    /\ pgMode = "call"
    /\ Len(pgColl) = 3
    /\ pgArgs.after = Some(Base64(pgColl[1]))
    /\ pgArgs.before = None /\ pgArgs.last = None
    /\ Nodes(pgPage) = <<pgColl[2], pgColl[3]>>

\* C17: when before matches an element, only elements strictly preceding it
\* are kept; when before matches no element of the collection, the page has
\* no edges.
C17_BeforeCursor ==
    (pgMode = "call" /\ IsSome(pgArgs.before)) =>
        LET hits == CursorHits(pgColl, Val(pgArgs.before))
        IN  IF hits # {}
            THEN \A j \in NodePositions(pgColl, pgPage) : \A h \in hits : j < h
            ELSE pgPage.edges = <<>>

\* C18: with last = l and first not supplied, the page is exactly the last
\* min(l, n) of the n elements that remain after the after- and the
\* before-filter, and hasPreviousPage is true.
C18_LastOnly ==
    (pgMode = "call" /\ IsSome(pgArgs.last) /\ pgArgs.first = None) =>
        /\ Nodes(pgPage) = LastOf(Remaining, Val(pgArgs.last))
        /\ pgPage.hasPreviousPage

\* C19: with both first = f and last = l the page is the last l of the first
\* f elements that remain after the after- and the before-filter, and
\* hasNextPage tells whether more than f elements remained.
C19_FixedOrder ==
    (pgMode = "call" /\ IsSome(pgArgs.first) /\ IsSome(pgArgs.last)) =>
        /\ Nodes(pgPage) = LastOf(FirstOf(Remaining, Val(pgArgs.first)), Val(pgArgs.last))
        /\ pgPage.hasNextPage <=> (Len(Remaining) > Val(pgArgs.first))

\* C20: no pagination call, whatever its arguments, changes the collection
\* it reads: the same elements in the same order before and after.
C20_SourceUnchanged == [][pgColl' = pgColl]_vars

C20_Witness ==
    /\ pgMode = "call"
    /\ TruthyNum(pgArgs.first) /\ TruthyStr(pgArgs.before)
    /\ Len(pgPage.edges) = 1
    /\ Len(pgColl) = 3

----------------------------------------------------------------------------
(* Claims about the server, checked under Spec and MutationSpec *)

(* C3: every request context owns its own Batch Loader instances, so no    *)
(* loader state is shared across requests.  As stated: the context of      *)
(* every request served holds loaders.                                     *)
C3_ContextOwnsLoaders ==
    lastRequest # None => IsSome(Val(lastRequest).context.loaders)

EventsOfCall(n) == { pubLog[e].topic : e \in { x \in 1..Len(pubLog) : pubLog[x].call = n } }

(* C4: a successful requestWithdrawal validates, applies, publishes and    *)
(* returns in that order: every event published and every event a          *)
(* subscriber received belongs to a transaction then in the store, a       *)
(* withdrawal that has returned is in the store with both its events       *)
(* published, and a read issued after a withdrawal returned, a read        *)
(* through a loader included, ends without an error and holds the          *)
(* transaction of every withdrawal that returned before it.                *)
C4_MutationOrdering ==
    /\ \A e \in 1..Len(pubLog) : TxnInStore(db, pubLog[e].call)
    /\ \A i \in 1..Len(subs) :
           \A r \in 1..Len(subs[i].received) : subs[i].received[r].stored
    /\ \A n \in ReturnedWithdrawals : TxnInStore(db, n) /\ EventsOfCall(n) = Topics
    /\ (lastRequest # None /\ Val(lastRequest).afterReturn)
           => (Val(lastRequest).ok /\ Val(lastRequest).reflects)

\* Subscription i had its listener registered for the topic of event e
\* when e was published
ListenerAt(i, e) ==
    /\ subs[i].topic = pubLog[e].topic
    /\ subs[i].since < e
    /\ IsSome(subs[i].until) => e <= Val(subs[i].until)

ListenersAt(e) == { i \in 1..Len(subs) : ListenerAt(i, e) }

\* The events subscription i has received, then those waiting in its queue
ReceivedOrWaiting(i) ==
    [ k \in 1..Len(subs[i].received) |-> subs[i].received[k].event ] \o subs[i].queue

\* No element occurs twice in the sequence
NoRepeat(seq) == \A k, l \in 1..Len(seq) : k # l => seq[k] # seq[l]

\* C12: an event published to a topic with S active subscriptions is handed
\* over exactly once to each of the S subscriptions and to no other; a
\* subscription that was not cancelled since has it delivered or waiting,
\* once; with S = 0 it reaches no subscription, then or later.
C12_FanOut ==
    \A i \in 1..Len(subs) :
        /\ NoRepeat(subs[i].handed)
        /\ \A e \in 1..Len(pubLog) :
               ListenerAt(i, e) <=> \E k \in 1..Len(subs[i].handed) : subs[i].handed[k] = e
        /\ subs[i].active => subs[i].handed = ReceivedOrWaiting(i)
        /\ \A k \in 1..Len(subs[i].received) :
               \E l \in 1..Len(subs[i].handed) :
                   subs[i].handed[l] = subs[i].received[k].event

\* One event was published to a topic with two active subscriptions and one
\* to a topic with none; each of the two subscribers has received the first.
C12_Witness ==
    /\ Len(subs) = 2
    /\ \E e \in 1..Len(pubLog) :
           /\ ListenersAt(e) = {1, 2}
           /\ \A i \in {1, 2} : \E k \in 1..Len(subs[i].received) :
                  subs[i].received[k].event = e
    /\ \E e \in 1..Len(pubLog) : ListenersAt(e) = {}

\* C13: every subscriber receives the events of its topic in the order in
\* which they were published.
C13_DeliveryOrder ==
    \A i \in 1..Len(subs) :
        \A k, l \in 1..Len(subs[i].received) :
            k < l => subs[i].received[k].event < subs[i].received[l].event

\* A subscriber has received two events of its topic, published by two
\* withdrawals.
C13_Witness ==
    \E i \in 1..Len(subs) :
        /\ Len(subs[i].received) = 2
        /\ pubLog[subs[i].received[1].event].call # pubLog[subs[i].received[2].event].call

\* C14: a subscription receives an event of its topic at most once, and
\* neither receives nor holds an event published before it was opened or
\* after it was cancelled.
C14_AtMostOnceNoReplay ==
    \A i \in 1..Len(subs) :
        LET got == ReceivedOrWaiting(i)
        IN  \A k \in 1..Len(got) :
                /\ \A l \in 1..Len(got) : l # k => got[l] # got[k]
                /\ pubLog[got[k]].topic = subs[i].topic
                /\ got[k] > subs[i].since
                /\ IsSome(subs[i].until) => got[k] <= Val(subs[i].until)

\* One subscription has received an event and was cancelled before the next
\* event of its topic; another was opened after an event of its topic and
\* has received the next.
C14_Witness ==
    /\ \E i \in 1..Len(subs) :
           /\ IsSome(subs[i].until)
           /\ Len(subs[i].received) = 1
           /\ \E e \in 1..Len(pubLog) :
                  pubLog[e].topic = subs[i].topic /\ e > Val(subs[i].until)
    /\ \E i \in 1..Len(subs) :
           /\ Len(subs[i].received) = 1
           /\ \E e \in 1..Len(pubLog) :
                  pubLog[e].topic = subs[i].topic /\ e <= subs[i].since

(* A step in which a mutation call ends with a validation failure *)
FailedCallStep ==
    /\ Len(calls') = Len(calls) + 1
    /\ calls'[Len(calls')].pc = "done"
    /\ ~calls'[Len(calls')].success

(* C5: a mutation whose validation fails leaves every account unchanged,   *)
(* publishes no event on any topic and reports the failure to the caller   *)
(* with a reason.                                                          *)
C5_FailedValidationChangesNothing ==
    [][ FailedCallStep =>
            /\ db' = db
            /\ pubLog' = pubLog
            /\ calls'[Len(calls')].message # "" ]_vars

(* A withdrawal above the maximum percentage was refused after a mutation  *)
(* that succeeded, and the store holds what that mutation left.            *)
C5_Witness ==
    /\ Len(calls) = 2
    /\ calls[1].pc = "done" /\ calls[1].success
    /\ calls[2].op = "requestWithdrawal" /\ calls[2].pc = "done"
    /\ ~calls[2].success /\ calls[2].message = MsgOverMaximum
    /\ db # InitialAccounts

(* C6: every mutation that succeeds has published at least one event by    *)
(* the time it returns to the caller.                                      *)
C6_SuccessPublishes ==
    \A n \in 1..Len(calls) :
        (calls[n].pc = "done" /\ calls[n].success) => EventsOfCall(n) # {}

(* C7: the accountBalanceChanged event published by withdrawal m shows,    *)
(* to every subscriber that receives it, the balance that resulted from m. *)
C7_EventShowsOwnBalance ==
    \A i \in 1..Len(subs) :
        \A r \in 1..Len(subs[i].received) :
            LET rec == subs[i].received[r]
                ev == pubLog[rec.event]
            IN  ev.topic = ACCOUNT_BALANCE_CHANGED
                    => rec.seen = calls[ev.call].balanceAfter

----------------------------------------------------------------------------
(* Claims about the batch functions, checked under LoaderSpec *)

\* The field of an account each loader answers with
FieldOfKind(kind) ==
    CASE kind = "account" -> "account"
      [] kind = "beneficiary" -> "beneficiaries"
      [] kind = "transaction" -> "withdrawalHistory"

\* C22: every invocation of a loader's batch function returns a sequence as
\* long as its input, whose i-th element is the result for the i-th id: the
\* account (or its beneficiaries, or its history) with that id, and for an id
\* of no account the absent result (undefined for the account loader, a new
\* empty list for the other two); the invocation never fails.
C22_BatchShape ==
    \A e \in 1..Len(ldFetchLog) :
        LET f == ldFetchLog[e]
        IN  /\ ~f.rejected
            /\ Len(f.values) = Len(f.keys)
            /\ \A i \in 1..Len(f.keys) :
                   LET known == { a \in 1..Len(loaderDb) : loaderDb[a].id = f.keys[i] }
                   IN  IF known = {}
                       THEN f.values[i] =
                                (IF ldKind = "account" THEN Undefined ELSE NewEmptyList)
                       ELSE \E a \in known :
                                /\ \A b \in known : a <= b
                                /\ f.values[i] = Ref(FieldOfKind(ldKind), a)

\* A batch of a list loader with an unknown id between two known ones
C22_Witness ==
    \E e \in 1..Len(ldFetchLog) :
        /\ ldKind = "beneficiary"
        /\ ldFetchLog[e].keys = <<DigitId(2), DigitId(3), DigitId(1)>>
        /\ ldFetchLog[e].values[2] = NewEmptyList

----------------------------------------------------------------------------
(* Claims about the mutations, checked under MutationSpec *)

\* The transactions the mutation calls have appended to account a, in order
NewTxns(a) == SelectSeq(db[a].withdrawalHistory, LAMBDA t : t.call > 0)

RECURSIVE SumAmounts(_)
SumAmounts(txns) ==
    IF txns = << >> THEN 0 ELSE Head(txns).amount + SumAmounts(Tail(txns))

\* The balance of account a before the k-th of its new transactions
BalanceBefore(a, k) ==
    InitialAccounts[a].balance - SumAmounts(SubSeq(NewTxns(a), 1, k - 1))

\* C21: the checks and the store update of requestWithdrawal are one atomic
\* step: whatever the interleaving of the calls, every withdrawal applied to
\* an account passed its checks on exactly the balance it then reduced (the
\* balance left by the withdrawals applied before it), and no reduction is
\* lost.
C21_AtomicValidateApply ==
    \A a \in 1..Len(db) :
        /\ db[a].balance = InitialAccounts[a].balance - SumAmounts(NewTxns(a))
        /\ \A k \in 1..Len(NewTxns(a)) :
               LET t == NewTxns(a)[k]
                   pre == BalanceBefore(a, k)
               IN  /\ calls[t.call].balanceAfter = pre - t.amount
                   /\ t.amount <= pre
                   /\ t.amount * 100 <= pre * MaximumWithdrawalPercentage

\* Two withdrawals on the same account overlap: both are applied and neither
\* has yet made its second publish.
C21_Witness ==
    /\ Len(calls) = 2
    /\ calls[1].pc = "pub2" /\ calls[2].pc = "pub2"
    /\ calls[1].account = calls[2].account
    /\ Len(NewTxns(calls[1].account)) = 2

\* The outcome C23 gives requestWithdrawal(accountId, amount) in the current
\* state: the message of the first check that fails, "" when none does
C23_FirstFailing(accountId, amount) ==
    LET known == { a \in 1..Len(db) : db[a].id = accountId }
        acc == db[CHOOSE a \in known : TRUE]
    IN  CASE known = {} -> MsgNotFound
          [] known # {} /\ ~acc.eligibleForWithdrawal -> MsgNotEligible
          [] known # {} /\ acc.eligibleForWithdrawal /\ ~(amount <= acc.balance) ->
                 MsgInsufficient
          [] known # {} /\ acc.eligibleForWithdrawal /\ amount <= acc.balance
                /\ ~(amount * 100 <= acc.balance * MaximumWithdrawalPercentage) ->
                 MsgOverMaximum
          [] OTHER -> ""

C23_Outcome(accountId, amount) ==
    LET n == Len(calls) + 1
        msg == C23_FirstFailing(accountId, amount)
    IN  /\ Len(calls') = n
        /\ IF msg # ""
           THEN /\ calls'[n].pc = "done" /\ ~calls'[n].success
                /\ calls'[n].message = msg
                /\ db' = db
           ELSE /\ calls'[n].pc = "pub2"
                /\ \E a \in 1..Len(db) :
                       /\ db[a].id = accountId
                       /\ Len(db'[a].withdrawalHistory) = Len(db[a].withdrawalHistory) + 1
                       /\ SubSeq(db'[a].withdrawalHistory, 1, Len(db[a].withdrawalHistory))
                              = db[a].withdrawalHistory
                       /\ LET t == db'[a].withdrawalHistory[Len(db'[a].withdrawalHistory)]
                          IN  t.status = "PENDING" /\ t.amount = amount /\ t.call = n
                       /\ \A b \in 1..Len(db) :
                              b # a => db'[b].withdrawalHistory = db[b].withdrawalHistory

\* C23: requestWithdrawal(accountId, amount) succeeds exactly when the
\* account exists, is eligible for withdrawal, amount <= balance and amount <=
\* balance * maximumWithdrawalPercentage / 100; the checks are made in that
\* order and the first one that fails alone gives the message of the failed
\* result, which changes nothing; a call that passes appends exactly one
\* PENDING transaction of that amount to the account's history and returns
\* success.
C23_WithdrawalRule ==
    [][ /\ \A accountId \in AccountIds, amount \in Amounts, suffix \in RandomSuffixes :
              RequestWithdrawal(accountId, amount, suffix) => C23_Outcome(accountId, amount)
        /\ \A n \in 1..Len(calls) :
              ReturnWithdrawal(n) => calls'[n].success /\ calls'[n].message = MsgSubmitted
      ]_vars

\* A call refused by the balance check (it fails the maximum check as well)
\* and a call that passed and returned
C23_Witness ==
    /\ Len(calls) = 2
    /\ calls[1].op = "requestWithdrawal" /\ calls[1].message = MsgInsufficient
    /\ calls[2].op = "requestWithdrawal" /\ calls[2].pc = "done" /\ calls[2].success
    /\ Len(NewTxns(calls[2].account)) = 1

\* C25: no requestWithdrawal call leaves the balance of the account higher
\* than it found it: every withdrawal applied has a positive amount and its
\* update left the balance lower by exactly that amount.
C25_WithdrawalLowersBalance ==
    \A a \in 1..Len(db) :
        \A k \in 1..Len(NewTxns(a)) :
            LET t == NewTxns(a)[k]
                pre == BalanceBefore(a, k)
            IN  /\ t.amount > 0
                /\ calls[t.call].balanceAfter = pre - t.amount
                /\ calls[t.call].balanceAfter <= pre

\* C26: the balance of every account is non-negative in every reachable
\* state.
C26_BalanceNonNegative ==
    \A a \in 1..Len(db) : db[a].balance >= 0

\* Two withdrawals of 10000 applied to account 1, the second one exactly the
\* 25% of the balance of 40000 it found
C26_Witness ==
    /\ Len(NewTxns(1)) = 2
    /\ db[1].balance = 30000

\* The percentages of the beneficiaries of account a add up to at most 100
PercentagesWithinHundred(a) ==
    SumPercentages(db[a].beneficiaries) <= 100

\* C27: in every reachable state the percentages of the beneficiaries of each
\* account add up to at most 100, and an addBeneficiary call whose percentage
\* would take the total of its account above 100 fails and leaves the
\* beneficiaries as they were.
C27_BeneficiaryTotal ==
    /\ [](\A a \in 1..Len(db) : PercentagesWithinHundred(a))
    /\ [][ \A accountId \in AccountIds, pct \in Percentages, suffix \in RandomSuffixes :
              \A a \in 1..Len(db) :
                  ( /\ AddBeneficiary(accountId, pct, suffix)
                    /\ db[a].id = accountId
                    /\ SumPercentages(db[a].beneficiaries) + pct > 100 )
                  => ( /\ ~calls'[Len(calls')].success
                       /\ calls'[Len(calls')].message = MsgOverHundred
                       /\ db' = db )
       ]_vars

\* A beneficiary was added to an account (the total went from 100 to 90) and a
\* second one, which would take the total to 140, was refused
C27_Witness ==
    /\ Len(calls) = 2
    /\ calls[1].op = "addBeneficiary" /\ calls[1].success
    /\ calls[2].op = "addBeneficiary" /\ calls[2].message = MsgOverHundred
    /\ calls[1].account = calls[2].account
    /\ SumPercentages(db[calls[1].account].beneficiaries) = 90

\* C28: while the status of an account is FROZEN or WITHDRAWN (both sample
\* accounts start ACTIVE, so updateAccountStatus has set it and has not set
\* it back), every requestWithdrawal call on the account is refused and
\* changes nothing.
C28_NoWithdrawalUnlessActive ==
    [][ \A accountId \in AccountIds, amount \in Amounts, suffix \in RandomSuffixes :
          \A a \in 1..Len(db) :
              ( /\ RequestWithdrawal(accountId, amount, suffix)
                /\ db[a].id = accountId
                /\ db[a].status \in {"FROZEN", "WITHDRAWN"} )
              => ( /\ ~calls'[Len(calls')].success
                   /\ calls'[Len(calls')].pc = "done"
                   /\ db' = db )
      ]_vars

----------------------------------------------------------------------------
(* Claims about the subscriptions, checked under Spec *)

\* C24: a subscription opened with accountId a is handed only events that
\* were published for account a.
C24_OnlyOwnAccount ==
    \A i \in 1..Len(subs) :
        \A k \in 1..Len(subs[i].handed) :
            pubLog[subs[i].handed[k]].accountId = subs[i].accountId

----------------------------------------------------------------------------
(* Claims about the portal, checked under CacheSpec and MonitorSpec *)

PositionIn(coll, id) == CHOOSE i \in 1..Len(coll) : coll[i] = id

\* C29: whatever page results were written to the cache, every cached
\* paginatedAccounts list read back has its edges in collection order and no
\* cursor twice, and an entry written with neither `after` nor `before` holds
\* the last result written, no older edge.
C29_MergedListOrdered ==
    \A args \in CacheArgs :
        IsSome(Read(apCache[args])) =>
            LET page == Val(Read(apCache[args]))
                edges == page.edges
            IN  /\ \A i, j \in 1..Len(edges) :
                       i < j => /\ edges[i].cursor # edges[j].cursor
                                /\ PositionIn(CacheCollection, edges[i].node)
                                       < PositionIn(CacheCollection, edges[j].node)
                /\ ( ~IsSome(args) \/ ( ~IsSome(Val(args).after) /\ ~IsSome(Val(args).before) ) )
                       => page = Paginate(CacheCollection,
                                          IF IsSome(args) THEN Val(args) ELSE NoArgs)

\* C30: after any sequence of addMetric calls the monitor holds at most 100
\* metrics, exactly the most recently added ones in the order they were added,
\* and each of getAverageResponseTime, getCacheHitRate and getErrorRate called
\* while no metric is stored returns 0.
C30_MonitorWindow ==
    LET n == Len(pmAdded)
        kept == IF n <= 100 THEN n ELSE 100
    IN  /\ Len(pmMetrics) <= 100
        /\ pmMetrics = SubSeq(pmAdded, n - kept + 1, n)
        /\ (IsSome(pmLast) /\ Val(pmLast).stored = 0) =>
               (Val(pmLast).value.num = 0 /\ Val(pmLast).value.den # 0)

\* Two metrics more than the monitor keeps were added: the two oldest are gone
C30_Witness ==
    /\ Len(pmAdded) = MaxStoredMetrics + 2
    /\ Len(pmMetrics) = MaxStoredMetrics
    /\ pmMetrics[1].call = 3
    /\ pmMetrics[MaxStoredMetrics].call = MaxStoredMetrics + 2

====
